---- MODULE Spec2Model ----
(***************************************************************************)
(* Model of simplerest (src/main.go): five HTTP handlers over one SQLite  *)
(* table  items(id INTEGER PRIMARY KEY AUTOINCREMENT, name TEXT NOT NULL  *)
(* UNIQUE), every statement issued between dbMu.Lock() and dbMu.Unlock(). *)
(*                                                                         *)
(* Each request is served by its own goroutine (net/http), modelled as a  *)
(* worker.  A handler is split at the points where what it does can be    *)
(* told apart by other requests: taking dbMu, running the statement and   *)
(* releasing dbMu, reading the result rows (which the code does after     *)
(* dbMu.Unlock()), and writing the response.                              *)
(***************************************************************************)
EXTENDS Integers, Sequences, FiniteSets, TLC

\* ---------------------------------------------------------------- bounds
NumWorkers == 2
MaxRequests == 3

Workers == 1..NumWorkers

\* ---------------------------------------------------------------- inputs
\* JSON null as the value of "name" (also stands for an absent key).
JsonNull == "<json-null>"
\* SQL NULL, which a Go string can never hold.
SqlNull == "<sql-null>"

\* Path values {id}: sequences of characters, as strconv.Atoi reads them.
TooBig == <<"9", "2", "2", "3", "3", "7", "2", "0", "3", "6",
            "8", "5", "4", "7", "7", "5", "8", "0", "8">>
PathIds == { <<"1">>, <<"0", "2">>, <<"x">>, TooBig }

\* Request bodies: wf = FALSE is a body json.Decoder rejects.
BadBody == [wf |-> FALSE, id |-> 0, name |-> ""]
Bodies == { BadBody,
            [wf |-> TRUE, id |-> 2, name |-> "a"],
            [wf |-> TRUE, id |-> 0, name |-> JsonNull] }

NoPath == << >>
MkReq(k, p, b) == [kind |-> k, path |-> p, body |-> b]
NoReq == MkReq("none", NoPath, BadBody)

\* ---------------------------------------------------------------- values
Item(i, n) == [id |-> i, name |-> n]
NoItem == Item(0, "")

MkBody(t, it, its, txt) == [t |-> t, item |-> it, items |-> its, text |-> txt]
TextBody(s) == MkBody("text", NoItem, << >>, s)
ObjectBody(it) == MkBody("object", it, << >>, "")
ArrayBody(its) == MkBody("array", NoItem, its, "")
NullBody == MkBody("null", NoItem, << >>, "")
EmptyBody == MkBody("empty", NoItem, << >>, "")

Response(st, b) == [status |-> st, body |-> b]
NoResp == Response(0, EmptyBody)

\* http.Error(w, msg, code): the body is msg and a newline.
HttpError(msg, code) == Response(code, TextBody(msg))

\* A Go slice of Item: "var items []Item" is nil until the first append.
NilSlice == [nil |-> TRUE, elems |-> << >>]
Append1(s, it) == [nil |-> FALSE, elems |-> Append(s.elems, it)]

\* json.NewEncoder(w).Encode(items): a nil slice encodes as null, any other
\* as an array (each followed by a newline).
EncodeSlice(s) == IF s.nil THEN NullBody ELSE ArrayBody(s.elems)

\* ---------------------------------------------------------------- parsing
Digits == <<"0", "1", "2", "3", "4", "5", "6", "7", "8", "9">>
IsDigit(c) == \E d \in 1..10 : Digits[d] = c
DigitVal(c) == (CHOOSE d \in 1..10 : Digits[d] = c) - 1

RECURSIVE DigitsVal(_, _)
DigitsVal(s, acc) ==
    IF s = << >> THEN acc ELSE DigitsVal(Tail(s), acc * 10 + DigitVal(Head(s)))

\* The magnitude limits of Go's int (64 bits): 2^63 - 1 for a value without a
\* minus sign, 2^63 for one with it, as decimal digits.
MaxIntDigits == <<"9", "2", "2", "3", "3", "7", "2", "0", "3", "6",
                  "8", "5", "4", "7", "7", "5", "8", "0", "7">>
MinIntDigits == <<"9", "2", "2", "3", "3", "7", "2", "0", "3", "6",
                  "8", "5", "4", "7", "7", "5", "8", "0", "8">>

RECURSIVE StripZeros(_)
StripZeros(s) ==
    IF s # << >> /\ Head(s) = "0" THEN StripZeros(Tail(s)) ELSE s

\* a <= b for digit strings of the same length
RECURSIVE DigitsLeq(_, _)
DigitsLeq(a, b) ==
    IF a = << >> THEN TRUE
    ELSE IF DigitVal(Head(a)) # DigitVal(Head(b))
         THEN DigitVal(Head(a)) < DigitVal(Head(b))
         ELSE DigitsLeq(Tail(a), Tail(b))

\* The digits ds denote a magnitude no greater than that of lim.
InRange(ds, lim) ==
    LET t == StripZeros(ds)
    IN \/ Len(t) < Len(lim)
       \/ Len(t) = Len(lim) /\ DigitsLeq(t, lim)

\* strconv.Atoi: optional sign, then one or more decimal digits whose value
\* fits Go's int; anything else is an error (syntax or range).  The value is
\* decided on the digits, so the range check needs no 64-bit arithmetic.
Atoi(s) ==
    LET signed == s # << >> /\ Head(s) \in {"+", "-"}
        neg == signed /\ Head(s) = "-"
        ds == IF signed THEN Tail(s) ELSE s
        syntax == ds # << >> /\ \A k \in 1..Len(ds) : IsDigit(ds[k])
        ok == syntax /\ InRange(ds, IF neg THEN MinIntDigits ELSE MaxIntDigits)
        mag == IF ok THEN DigitsVal(ds, 0) ELSE 0
    IN [ok |-> ok,
        val |-> IF neg THEN 0 - mag ELSE mag]

\* json.NewDecoder(r.Body).Decode(&item) into a zero Item: null leaves the
\* field at its zero value.
Decode(b) ==
    [ok |-> b.wf,
     item |-> IF b.wf
              THEN Item(b.id, IF b.name = JsonNull THEN "" ELSE b.name)
              ELSE NoItem]

\* ---------------------------------------------------------------- store
\* The table is a set of rows; the constraints of the schema are enforced by
\* the statements below, not by the representation.
Ids(tbl) == { r.id : r \in tbl }
NamesOf(tbl) == { r.name : r \in tbl }
MaxOf(S) == IF S = {} THEN 0 ELSE CHOOSE m \in S : \A x \in S : x <= m

StoreRes(tbl, sq, err, lastId, n) ==
    [table |-> tbl, seq |-> sq, err |-> err, lastId |-> lastId, n |-> n]

\* Mutant: a plain INTEGER PRIMARY KEY, which forgets the ids of deleted rows.
NextIdReuse(tbl, sq) == MaxOf(Ids(tbl)) + 1

\* AUTOINCREMENT: one more than the largest rowid the table has ever held
\* (sqlite_sequence), whether or not that row still exists.
NextId(tbl, sq) == MaxOf(Ids(tbl) \cup {sq}) + 1

\* Mutant: the name column without UNIQUE.
StoreInsertNoUnique(tbl, sq, name) ==
    IF name = SqlNull
    THEN StoreRes(tbl, sq, "constraint: NOT NULL", 0, 0)
    ELSE LET new == NextId(tbl, sq)
         IN StoreRes(tbl \cup {Item(new, name)}, new, "", new, 1)

\* INSERT INTO items (name) VALUES (?)
StoreInsert(tbl, sq, name) ==
    IF name = SqlNull
    THEN StoreRes(tbl, sq, "constraint: NOT NULL", 0, 0)
    ELSE IF name \in NamesOf(tbl)
    THEN StoreRes(tbl, sq, "constraint: UNIQUE", 0, 0)
    ELSE LET new == NextId(tbl, sq)
         IN StoreRes(tbl \cup {Item(new, name)}, new, "", new, 1)

\* Mutant: an UPDATE that is not checked against the other rows' names.
StoreUpdateNoUnique(tbl, sq, name, i) ==
    LET hit == { r \in tbl : r.id = i }
    IN IF hit = {}
       THEN StoreRes(tbl, sq, "", 0, 0)
       ELSE StoreRes((tbl \ hit) \cup { Item(r.id, name) : r \in hit }, sq, "", 0,
                     Cardinality(hit))

\* UPDATE items SET name = ? WHERE id = ?
StoreUpdate(tbl, sq, name, i) ==
    LET hit == { r \in tbl : r.id = i }
        rest == tbl \ hit
    IN IF hit = {}
       THEN StoreRes(tbl, sq, "", 0, 0)
       ELSE IF name = SqlNull
       THEN StoreRes(tbl, sq, "constraint: NOT NULL", 0, 0)
       ELSE IF name \in NamesOf(rest)
       THEN StoreRes(tbl, sq, "constraint: UNIQUE", 0, 0)
       ELSE StoreRes(rest \cup { Item(r.id, name) : r \in hit }, sq, "", 0,
                     Cardinality(hit))

\* Mutant: a delete that reports the row as affected and leaves it in place.
StoreDeleteSoft(tbl, sq, i) ==
    StoreRes(tbl, sq, "", 0, Cardinality({ r \in tbl : r.id = i }))

\* DELETE FROM items WHERE id = ?
StoreDelete(tbl, sq, i) ==
    LET hit == { r \in tbl : r.id = i }
    IN StoreRes(tbl \ hit, sq, "", 0, Cardinality(hit))

\* Rows in rowid order, the order a scan of the table yields them.
RECURSIVE SortedRows(_)
SortedRows(tbl) ==
    IF tbl = {} THEN << >>
    ELSE LET r == CHOOSE x \in tbl : \A y \in tbl : x.id <= y.id
         IN << r >> \o SortedRows(tbl \ {r})

\* SELECT id, name FROM items
StoreSelectAll(tbl) == SortedRows(tbl)

\* SELECT id, name FROM items WHERE id = ?
StoreSelectById(tbl, i) == SortedRows({ r \in tbl : r.id = i })

\* A result set: the rows not yet read, and whether the statement is still
\* active on its connection (it returned a row and has not reached its end).
Cursor(rs) == [active |-> rs # << >>, pending |-> rs]
NoCursor == Cursor(<< >>)
NoRes == StoreRes({}, 0, "", 0, 0)

\* ---------------------------------------------------------------- responses
\* getItemsHandler, after the rows loop
ListResponse(its) == Response(200, EncodeSlice(its))

\* getItemByIDHandler: row.Scan, sql.ErrNoRows -> 404
GetResponse(pending) ==
    IF pending = << >>
    THEN HttpError("Item not found", 404)
    ELSE Response(200, ObjectBody(Head(pending)))

\* Mutant: the Item echoed as decoded, without item.ID = int(id).
CreateResponseNoId(it, r) ==
    IF r.err # ""
    THEN HttpError("Failed to create item", 500)
    ELSE Response(201, ObjectBody(it))

\* createItemHandler, after the INSERT
CreateResponse(it, r) ==
    IF r.err # ""
    THEN HttpError("Failed to create item", 500)
    ELSE Response(201, ObjectBody(Item(r.lastId, it.name)))

\* Mutant: the Item echoed as decoded, without item.ID = id.
UpdateResponseBodyId(i, it, r) ==
    IF r.err # ""
    THEN HttpError("Failed to update item", 500)
    ELSE IF r.n = 0
    THEN HttpError("Item not found or no changes made", 404)
    ELSE Response(200, ObjectBody(it))

\* updateItemHandler, after the UPDATE
UpdateResponse(i, it, r) ==
    IF r.err # ""
    THEN HttpError("Failed to update item", 500)
    ELSE IF r.n = 0
    THEN HttpError("Item not found or no changes made", 404)
    ELSE Response(200, ObjectBody(Item(i, it.name)))

\* deleteItemHandler, after the DELETE
DeleteResponse(r) ==
    IF r.err # ""
    THEN HttpError("Failed to delete item", 500)
    ELSE IF r.n = 0
    THEN HttpError("Item not found", 404)
    ELSE Response(204, EmptyBody)

\* ---------------------------------------------------------------- state
VARIABLES
    table,    \* rows of items
    seq,      \* sqlite_sequence: largest id ever assigned
    dbMu,     \* 0 when unlocked, else the worker holding the mutex
    pc,       \* each worker's position in its handler
    req,      \* the request a worker is serving
    id,       \* handler local: the parsed path id
    item,     \* handler local: the decoded Item
    res,      \* handler local: sql.Result and err of Exec
    rows,     \* handler local: *sql.Rows / *sql.Row
    items,    \* handler local: the slice getItemsHandler builds
    last,     \* the request the latest step answered, with its response
    budget,   \* requests still to be issued
    track,    \* whether the history of completed requests is recorded
    hist,     \* history: completed requests with their responses
    created,  \* history: items returned by 201 responses
    deleted,  \* history: ids whose DELETE was answered 204
    touched,  \* history: ids an UPDATE or DELETE statement has changed
    seen,     \* history: what had been answered when the request took dbMu
    obs       \* history: the table around the request's statement

vars == << table, seq, dbMu, pc, req, id, item, res, rows, items, last,
           budget, track, hist, created, deleted, touched, seen, obs >>

locals == << id, item, res, rows, items >>
ghosts == << track, created, deleted, touched >>

SqlResult(r) == [err |-> r.err, lastId |-> r.lastId, n |-> r.n]
NoResult == SqlResult(NoRes)
NoSeen == [created |-> {}, deleted |-> {}]
\* What the answer to request r can be held against: for a create the items
\* created and the ids deleted so far, for a get those of its path id.
Seen(r) ==
    IF r.kind = "create"
    THEN [created |-> created, deleted |-> deleted]
    ELSE IF r.kind = "get"
    THEN [created |-> { it \in created : it.id = Atoi(r.path).val },
          deleted |-> deleted \cap {Atoi(r.path).val}]
    ELSE NoSeen
NoObs == [ran |-> FALSE, pre |-> {}, post |-> {}, touched |-> {}]
Obs(i, pre, post) ==
    [ran |-> TRUE, pre |-> pre, post |-> post, touched |-> touched \cap {i}]
Answered(r, rsp, sn, ob) == [req |-> r, resp |-> rsp, seen |-> sn, obs |-> ob]
NoLast == Answered(NoReq, NoResp, NoSeen, NoObs)
\* The step answers no request.
Silent == last' = NoLast

\* What api.db can hold when the process starts: nothing (a new file), or
\* what an earlier run left (CREATE TABLE IF NOT EXISTS keeps it).
NewFile == [table |-> {}, seq |-> 0]
EarlierRuns == { [table |-> {Item(1, "b")}, seq |-> 1] }

\* The state after initDB on a database file holding db: the table exists,
\* the mutex is free, no request is being served.
Started(db) ==
    /\ table = db.table
    /\ seq = db.seq
    /\ dbMu = 0
    /\ pc = [w \in Workers |-> "idle"]
    /\ req = [w \in Workers |-> NoReq]
    /\ id = [w \in Workers |-> 0]
    /\ item = [w \in Workers |-> NoItem]
    /\ res = [w \in Workers |-> NoResult]
    /\ rows = [w \in Workers |-> NoCursor]
    /\ items = [w \in Workers |-> NilSlice]
    /\ last = NoLast
    /\ budget = MaxRequests
    /\ hist = << >>
    /\ created = {}
    /\ deleted = {}
    /\ touched = {}
    /\ seen = [w \in Workers |-> NoSeen]
    /\ obs = [w \in Workers |-> NoObs]

Init == track = FALSE /\ \E db \in {NewFile} \cup EarlierRuns : Started(db)
InitSer == track = TRUE /\ Started(NewFile)

\* ---------------------------------------------------------------- steps
\* The router hands a request to a new goroutine.  Goroutines that serve no
\* request are alike, so the request takes the first free one.
Accept(w) ==
    /\ pc[w] = "idle"
    /\ \A v \in Workers : v < w => pc[v] # "idle"
    /\ budget > 0
    /\ budget' = budget - 1

Record(r, rsp, sn, ob) ==
    /\ last' = Answered(r, rsp, sn, ob)
    /\ hist' = IF track THEN Append(hist, [req |-> r, resp |-> rsp]) ELSE hist

\* The handler of request r has its path id and Item and takes dbMu.  What
\* comes before dbMu.Lock() touches only the handler's own locals, so it is
\* one step with the acquisition: a handler waiting for the mutex has done
\* nothing another request can observe.
Proceed(w, r, i, it) ==
    /\ dbMu = 0
    /\ dbMu' = w
    /\ pc' = [pc EXCEPT ![w] = "exec"]
    /\ req' = [req EXCEPT ![w] = r]
    /\ id' = [id EXCEPT ![w] = i]
    /\ item' = [item EXCEPT ![w] = it]
    /\ seen' = [seen EXCEPT ![w] = Seen(r)]
    /\ Silent
    /\ UNCHANGED << res, rows, items, obs, hist >>

\* The handler of request r returns at once, having written rsp.
Reject(w, r, rsp) ==
    /\ Record(r, rsp, Seen(r), NoObs)
    /\ UNCHANGED << dbMu, pc, req, locals, seen, obs >>

\* The handler returns having written rsp; its locals are gone.
Reply(w, rsp) ==
    /\ Record(req[w], rsp, seen[w], obs[w])
    /\ pc' = [pc EXCEPT ![w] = "idle"]
    /\ req' = [req EXCEPT ![w] = NoReq]
    /\ id' = [id EXCEPT ![w] = 0]
    /\ item' = [item EXCEPT ![w] = NoItem]
    /\ res' = [res EXCEPT ![w] = NoResult]
    /\ rows' = [rows EXCEPT ![w] = NoCursor]
    /\ items' = [items EXCEPT ![w] = NilSlice]
    /\ seen' = [seen EXCEPT ![w] = NoSeen]
    /\ obs' = [obs EXCEPT ![w] = NoObs]
    /\ UNCHANGED << table, seq, dbMu, budget, track >>

\* Every write statement (INSERT, UPDATE, DELETE), also one that matches no
\* row, takes the database file exclusively.  While another connection still
\* has an active result set, SQLite either refuses the statement
\* (SQLITE_BUSY "database is locked", rollback journal) or lets it through
\* and leaves the reader on its snapshot (WAL); the file decides which.
ReadersOf(w) == { v \in Workers \ {w} : rows[v].active }
Outcomes(w, r) ==
    IF ReadersOf(w) # {}
    THEN { r, StoreRes(table, seq, "database is locked", 0, 0) }
    ELSE { r }

\* db.Exec(...) ; dbMu.Unlock()  with outcome r
ExecWrite(w, r) ==
    /\ table' = r.table
    /\ seq' = r.seq
    /\ res' = [res EXCEPT ![w] = SqlResult(r)]
    /\ obs' = [obs EXCEPT ![w] = Obs(id[w], table, r.table)]
    /\ dbMu' = 0
    /\ pc' = [pc EXCEPT ![w] = "result"]
    /\ Silent
    /\ UNCHANGED << req, id, item, rows, items, budget, track, hist, seen >>

\* db.Query(...) ; dbMu.Unlock()  with result set rs
ExecRead(w, rs, next) ==
    /\ rows' = [rows EXCEPT ![w] = Cursor(rs)]
    /\ obs' = [obs EXCEPT ![w] = Obs(id[w], table, table)]
    /\ dbMu' = 0
    /\ pc' = [pc EXCEPT ![w] = next]
    /\ Silent
    /\ UNCHANGED << table, seq, req, id, item, res, items, budget, hist,
                    ghosts, seen >>

\* ------------------------------------------------------- getItemsHandler
ListBegin(w) ==
    /\ Accept(w)
    /\ Proceed(w, MkReq("list", NoPath, BadBody), 0, NoItem)
    /\ UNCHANGED << table, seq, ghosts >>

ListQuery(w) ==
    /\ pc[w] = "exec" /\ dbMu = w /\ req[w].kind = "list"
    /\ ExecRead(w, StoreSelectAll(table), "rows")

\* rows.Next() yields a row; rows.Scan; append
ListNext(w) ==
    /\ pc[w] = "rows" /\ rows[w].pending # << >>
    /\ items' = [items EXCEPT ![w] = Append1(items[w], Head(rows[w].pending))]
    /\ rows' = [rows EXCEPT ![w].pending = Tail(rows[w].pending)]
    /\ Silent
    /\ UNCHANGED << table, seq, dbMu, pc, req, id, item, res, budget, hist,
                    ghosts, seen, obs >>

\* rows.Next() reports the end; encode the slice
ListEncode(w) ==
    /\ pc[w] = "rows" /\ rows[w].pending = << >>
    /\ Reply(w, ListResponse(items[w]))
    /\ UNCHANGED << created, deleted, touched >>

\* ---------------------------------------------------- getItemByIDHandler
GetBegin(w, p) ==
    /\ Accept(w)
    /\ IF Atoi(p).ok
       THEN Proceed(w, MkReq("get", p, BadBody), Atoi(p).val, NoItem)
       ELSE Reject(w, MkReq("get", p, BadBody), HttpError("Invalid item ID", 400))
    /\ UNCHANGED << table, seq, ghosts >>

GetQuery(w) ==
    /\ pc[w] = "exec" /\ dbMu = w /\ req[w].kind = "get"
    /\ ExecRead(w, StoreSelectById(table, id[w]), "scan")

\* row.Scan(&item.ID, &item.Name), which closes the result set
GetScan(w) ==
    /\ pc[w] = "scan"
    /\ Reply(w, GetResponse(rows[w].pending))
    /\ UNCHANGED << created, deleted, touched >>

\* ------------------------------------------------------ createItemHandler
CreateBegin(w, b) ==
    /\ Accept(w)
    /\ IF Decode(b).ok
       THEN Proceed(w, MkReq("create", NoPath, b), 0, Decode(b).item)
       ELSE Reject(w, MkReq("create", NoPath, b),
                   HttpError("Invalid request body", 400))
    /\ UNCHANGED << table, seq, ghosts >>

CreateExec(w) ==
    /\ pc[w] = "exec" /\ dbMu = w /\ req[w].kind = "create"
    /\ \E r \in Outcomes(w, StoreInsert(table, seq, item[w].name)) : ExecWrite(w, r)
    /\ UNCHANGED << created, deleted, touched >>

CreateRespond(w) ==
    /\ pc[w] = "result" /\ req[w].kind = "create"
    /\ LET rsp == CreateResponse(item[w], res[w])
       IN /\ Reply(w, rsp)
          /\ created' = IF rsp.status = 201 THEN created \cup {rsp.body.item} ELSE created
    /\ UNCHANGED << deleted, touched >>

\* ------------------------------------------------------ updateItemHandler
UpdateBegin(w, p, b) ==
    /\ Accept(w)
    /\ IF ~Atoi(p).ok
       THEN Reject(w, MkReq("update", p, b), HttpError("Invalid item ID", 400))
       ELSE IF ~Decode(b).ok
       THEN Reject(w, MkReq("update", p, b), HttpError("Invalid request body", 400))
       ELSE Proceed(w, MkReq("update", p, b), Atoi(p).val, Decode(b).item)
    /\ UNCHANGED << table, seq, ghosts >>

UpdateExec(w) ==
    /\ pc[w] = "exec" /\ dbMu = w /\ req[w].kind = "update"
    /\ \E r \in Outcomes(w, StoreUpdate(table, seq, item[w].name, id[w])) :
          /\ ExecWrite(w, r)
          /\ touched' = IF r.err = "" /\ r.n > 0 THEN touched \cup {id[w]} ELSE touched
    /\ UNCHANGED << created, deleted >>

UpdateRespond(w) ==
    /\ pc[w] = "result" /\ req[w].kind = "update"
    /\ Reply(w, UpdateResponse(id[w], item[w], res[w]))
    /\ UNCHANGED << created, deleted, touched >>

\* ------------------------------------------------------ deleteItemHandler
DeleteBegin(w, p) ==
    /\ Accept(w)
    /\ IF Atoi(p).ok
       THEN Proceed(w, MkReq("delete", p, BadBody), Atoi(p).val, NoItem)
       ELSE Reject(w, MkReq("delete", p, BadBody), HttpError("Invalid item ID", 400))
    /\ UNCHANGED << table, seq, ghosts >>

DeleteExec(w) ==
    /\ pc[w] = "exec" /\ dbMu = w /\ req[w].kind = "delete"
    /\ \E r \in Outcomes(w, StoreDelete(table, seq, id[w])) :
          /\ ExecWrite(w, r)
          /\ touched' = IF r.err = "" /\ r.n > 0 THEN touched \cup {id[w]} ELSE touched
    /\ UNCHANGED << created, deleted >>

DeleteRespond(w) ==
    /\ pc[w] = "result" /\ req[w].kind = "delete"
    /\ LET rsp == DeleteResponse(res[w])
       IN /\ Reply(w, rsp)
          /\ deleted' = IF rsp.status = 204 THEN deleted \cup {id[w]} ELSE deleted
    /\ UNCHANGED << created, touched >>

\* ---------------------------------------------------------------- system
Next ==
    \/ \E w \in Workers : ListBegin(w)
    \/ \E w \in Workers, p \in PathIds : GetBegin(w, p)
    \/ \E w \in Workers, b \in Bodies : CreateBegin(w, b)
    \/ \E w \in Workers, p \in PathIds, b \in Bodies : UpdateBegin(w, p, b)
    \/ \E w \in Workers, p \in PathIds : DeleteBegin(w, p)
    \/ \E w \in Workers : ListQuery(w)
    \/ \E w \in Workers : ListNext(w)
    \/ \E w \in Workers : ListEncode(w)
    \/ \E w \in Workers : GetQuery(w)
    \/ \E w \in Workers : GetScan(w)
    \/ \E w \in Workers : CreateExec(w)
    \/ \E w \in Workers : CreateRespond(w)
    \/ \E w \in Workers : UpdateExec(w)
    \/ \E w \in Workers : UpdateRespond(w)
    \/ \E w \in Workers : DeleteExec(w)
    \/ \E w \in Workers : DeleteRespond(w)

Spec == Init /\ [][Next]_vars

\* The same system with the history of completed requests recorded.
SpecSer == InitSer /\ [][Next]_vars

\* ------------------------------------------------- a handler run alone
\* The rows loop of getItemsHandler run to its end.
RECURSIVE Collect(_, _)
Collect(rs, acc) ==
    IF rs = << >> THEN acc ELSE Collect(Tail(rs), Append1(acc, Head(rs)))

Served(tbl, sq, rsp) == [table |-> tbl, seq |-> sq, resp |-> rsp]

\* One request served from start to end with no other request in progress.
Serve(r, tbl, sq) ==
    CASE r.kind = "list" ->
           Served(tbl, sq, ListResponse(Collect(StoreSelectAll(tbl), NilSlice)))
      [] r.kind = "get" ->
           IF ~Atoi(r.path).ok
           THEN Served(tbl, sq, HttpError("Invalid item ID", 400))
           ELSE Served(tbl, sq, GetResponse(StoreSelectById(tbl, Atoi(r.path).val)))
      [] r.kind = "create" ->
           IF ~Decode(r.body).ok
           THEN Served(tbl, sq, HttpError("Invalid request body", 400))
           ELSE LET out == StoreInsert(tbl, sq, Decode(r.body).item.name)
                IN Served(out.table, out.seq,
                          CreateResponse(Decode(r.body).item, SqlResult(out)))
      [] r.kind = "update" ->
           IF ~Atoi(r.path).ok
           THEN Served(tbl, sq, HttpError("Invalid item ID", 400))
           ELSE IF ~Decode(r.body).ok
           THEN Served(tbl, sq, HttpError("Invalid request body", 400))
           ELSE LET out == StoreUpdate(tbl, sq, Decode(r.body).item.name,
                                       Atoi(r.path).val)
                IN Served(out.table, out.seq,
                          UpdateResponse(Atoi(r.path).val, Decode(r.body).item,
                                         SqlResult(out)))
      [] r.kind = "delete" ->
           IF ~Atoi(r.path).ok
           THEN Served(tbl, sq, HttpError("Invalid item ID", 400))
           ELSE LET out == StoreDelete(tbl, sq, Atoi(r.path).val)
                IN Served(out.table, out.seq, DeleteResponse(SqlResult(out)))
      [] OTHER -> Served(tbl, sq, NoResp)

\* ---------------------------------------------------------------- claims
\* The request just answered ran its statement and is of kind k.
Ran(k) == last.obs.ran /\ last.req.kind = k
PathId == Atoi(last.req.path).val
ReqName == Decode(last.req.body).item.name
Quiescent == \A w \in Workers : pc[w] = "idle"

\* A statement in flight: the worker holds dbMu and is issuing it.
InStatement(w) == pc[w] = "exec"
\* Result rows being read: the statement is still active on its connection.
ReadingRows(w) == pc[w] \in {"rows", "scan"} /\ rows[w].active
StoreAccess(w) == InStatement(w) \/ ReadingRows(w)

\* C1: at most one store access is in flight at any time: no request executes
\* a statement or reads its result rows while another request executes a
\* statement or reads its result rows.
C1_OneStoreAccess ==
    \A v, w \in Workers : (v # w /\ StoreAccess(v)) => ~StoreAccess(w)

Perms(n) == { f \in [1..n -> 1..n] : \A i, j \in 1..n : f[i] = f[j] => i = j }

RECURSIVE Replay(_, _, _, _)
Replay(order, k, tbl, sq) ==
    IF k > Len(hist)
    THEN tbl = table
    ELSE LET h == hist[order[k]]
             out == Serve(h.req, tbl, sq)
         IN out.resp = h.resp /\ Replay(order, k + 1, out.table, out.seq)

\* C2: every concurrent execution is equivalent to a serial one: once all
\* requests have been answered there is a total order of them in which
\* serving them one at a time from the empty table gives every request the
\* response it got and leaves the table as it is.
C2_SerialEquivalent ==
    Quiescent => \E order \in Perms(Len(hist)) : Replay(order, 1, {}, 0)

\* C3: no two persisted items share an id, no two share a name, and every
\* persisted name is non-null.
C3_UniqueRows ==
    /\ \A r, q \in table : (r.id = q.id \/ r.name = q.name) => r = q
    /\ \A r \in table : r.name # SqlNull

C3_Witness ==
    /\ Cardinality(table) >= 2
    /\ last.req.kind \in {"create", "update"}
    /\ last.obs.ran /\ last.resp.status = 500
    /\ ReqName \in NamesOf(table)

\* C4: a POST whose name equals the name of a persisted item is answered 500,
\* inserts no row and leaves the table as it was.
C4_DuplicateCreate ==
    (Ran("create") /\ ReqName \in NamesOf(last.obs.pre))
        => /\ last.resp.status = 500
           /\ last.obs.post = last.obs.pre

C4_Witness ==
    /\ Ran("create") /\ ReqName \in NamesOf(last.obs.pre)
    /\ last.resp.status = 500
    /\ last.obs.pre # {} /\ table = last.obs.pre

\* C5: when a POST with name N has been answered 201 with id i, a GET of i
\* that follows (it takes dbMu after that answer), with no update or delete
\* of i so far, is answered 200 with exactly {id: i, name: N}.
C5_RoundTrip ==
    Ran("get") =>
        \A it \in last.seen.created :
            (it.id = PathId /\ it.id \notin last.obs.touched)
                => last.resp = Response(200, ObjectBody(it))

C5_Witness ==
    /\ Ran("get")
    /\ \E it \in last.seen.created :
          /\ it.id = PathId /\ it.id \notin last.obs.touched
          /\ last.resp = Response(200, ObjectBody(it))
          /\ Cardinality(last.obs.pre) >= 2

\* C6: after a DELETE of an id has been answered 204 the row is gone for good,
\* and a GET of that id that follows (it takes dbMu after that answer) is
\* answered 404, whatever was created, updated or deleted in between.
C6_DeleteThenGet ==
    /\ (Ran("delete") /\ last.resp.status = 204) => PathId \notin Ids(last.obs.post)
    /\ \A i \in deleted : i \notin Ids(table)
    /\ (Ran("get") /\ PathId \in last.seen.deleted) => last.resp.status = 404

C6_Witness ==
    /\ Ran("get") /\ PathId \in last.seen.deleted
    /\ last.resp.status = 404
    /\ last.obs.pre # {}
    /\ last.seen.created # {}

\* C7: GET, PUT (with a well-formed body) and DELETE of an integer id that
\* matches no row are answered 404 and leave the table unchanged; PUT and
\* DELETE of an id that matches a row are never answered 404.
C7_NotFound ==
    /\ (last.obs.ran /\ last.req.kind \in {"get", "update", "delete"}
            /\ PathId \notin Ids(last.obs.pre))
          => (last.resp.status = 404 /\ last.obs.post = last.obs.pre)
    /\ (last.obs.ran /\ last.req.kind \in {"update", "delete"}
            /\ PathId \in Ids(last.obs.pre))
          => last.resp.status # 404

\* C8: a PUT answered 200 changes only the name of the row whose id is the
\* path id: that row keeps its id, the other rows are unchanged, none is added
\* or removed, and the id in the response is the path id whatever id the body
\* carries.
C8_UpdateFrame ==
    (Ran("update") /\ last.resp.status = 200) =>
        LET old == { r \in last.obs.pre : r.id = PathId }
        IN /\ Cardinality(old) = 1
           /\ last.obs.post = (last.obs.pre \ old) \cup {Item(PathId, ReqName)}
           /\ last.resp.body = ObjectBody(Item(PathId, ReqName))

C8_Witness ==
    /\ Ran("update") /\ last.resp.status = 200
    /\ last.req.body.id # PathId
    /\ Cardinality(last.obs.pre) >= 2
    /\ last.obs.post # last.obs.pre

\* C9: GET /items on a table with no rows is answered 200 with the empty JSON
\* array [] as its body, not null and not an error.
C9_EmptyList ==
    (Ran("list") /\ last.obs.pre = {})
        => last.resp = Response(200, ArrayBody(<< >>))

\* C10: ids only grow and are never reused: a create answered 201 returns an
\* id greater than the id returned by every create answered before it took
\* dbMu, deleted or not, and no update changes the id of a row.
C10_MonotonicIds ==
    /\ (Ran("create") /\ last.resp.status = 201) =>
          \A it \in last.seen.created : last.resp.body.item.id > it.id
    /\ Ran("update") =>
          /\ Ids(last.obs.post) = Ids(last.obs.pre)
          /\ Cardinality(last.obs.post) = Cardinality(last.obs.pre)

C10_Witness ==
    /\ Ran("create") /\ last.resp.status = 201
    /\ \E it \in last.seen.created : it.id \in last.seen.deleted
    /\ last.obs.pre = {}

====
